---------------------------- MODULE Spec2Model ----------------------------
(***************************************************************************)
(* Model of the court-name scrapers of deno-courts-info.                   *)
(*                                                                         *)
(* Three programs share one design: src/main.ts (lines 1-228),             *)
(* src/unnamed/part_000 and src/unnamed/part_001.  Each fetches a list of  *)
(* pages one after the other (scrapePages), turns the anchors of a page    *)
(* into a list of names (scrapePage, with splitCourts as its tokenizer)    *)
(* and writes one file per page plus one combined file (main).             *)
(*                                                                         *)
(* A JavaScript string is a sequence of UTF-16 code units; every character *)
(* used here is in the basic plane, so a string is modelled as a sequence  *)
(* of code points.  Indices are 0-based as in the source.                  *)
(***************************************************************************)
EXTENDS Integers, Sequences, FiniteSets, TLC

VARIABLES
    text,        \* splitCourts: the argument
    called,      \* splitCourts: which variants have returned
    tokensMain,  \* splitCourts of src/main.ts: the returned array
    tokens000,   \* splitCourts of src/unnamed/part_000: the returned array
    prog,        \* which program runs: "main", "part_000" or "part_001"
    candidates,  \* scrapePage: the raw strings taken from the document
    pagePc,      \* scrapePage: "idle", "parsed" or "returned"
    accepted,    \* scrapePage: the candidates left after the two filters
    lines,       \* scrapePage: the array handed to new Set(...)
    data,        \* scrapePage: the returned array
    urls,        \* main: the URL list handed to scrapePages
    i,           \* scrapePages: the loop index
    pc,          \* main / scrapePages: the control point
    results,     \* scrapePages: the results array
    fetched,     \* every URL scrapePage was called with, in call order
    sleeps,      \* every sleep awaited: <<loop index, milliseconds>>
    files        \* every file written: [kind, url, content]

splitVars == <<text, called, tokensMain, tokens000>>
pageVars  == <<candidates, pagePc, accepted, lines, data>>
crawlVars == <<urls, i, pc, results, fetched, sleeps, files>>
vars      == <<splitVars, prog, pageVars, crawlVars>>

---------------------------------------------------------------------------
(* Characters (UTF-16 code units) the source names in its literals.        *)

ChSai   == 35009
ChBan   == 21028
ChSho   == 25152
ChShi   == 25903
ChBu    == 37096
ChShutsu == 20986
ChChou  == 24373
ChNai   == 20869
ChNo    == 12398
ChNakaguro == 12539
ChSlash == 47
ChFullComma == 65292
ChFullStop == 65294
ChHalfNakaguro == 65381
ChLF    == 10
ChSpace == 32
\* An ordinary character of a place name (the second of the example string).
ChChi   == 22320

Saibansho    == <<ChSai, ChBan, ChSho>>
Shibu        == <<ChShi, ChBu>>
Shucchoujo   == <<ChShutsu, ChChou, ChSho>>
Nakaguro     == <<ChNakaguro>>
Uchino       == <<ChNai, ChNo>>
Slash        == <<ChSlash>>
LF           == <<ChLF>>

---------------------------------------------------------------------------
(* String primitives of JavaScript, on sequences of code units.            *)

Min(a, b) == IF a < b THEN a ELSE b
Max(a, b) == IF a < b THEN b ELSE a

\* pat occurs in s at 0-based position k.
MatchAt(s, pat, k) ==
    /\ 0 <= k
    /\ k + Len(pat) <= Len(s)
    /\ \A j \in 1..Len(pat) : s[k + j] = pat[j]

RECURSIVE IndexOfFrom(_, _, _)
IndexOfFrom(s, pat, from) ==
    IF from + Len(pat) > Len(s) THEN -1
    ELSE IF MatchAt(s, pat, from) THEN from
    ELSE IndexOfFrom(s, pat, from + 1)

\* String.prototype.indexOf(pat, from): the position is clamped to [0, length].
IndexOf(s, pat, from) == IndexOfFrom(s, pat, Min(Max(from, 0), Len(s)))

\* String.prototype.substring(a, b): both ends clamped, swapped when a > b.
Substring(s, a, b) ==
    LET ca == Min(Max(a, 0), Len(s))
        cb == Min(Max(b, 0), Len(s))
    IN  SubSeq(s, Min(ca, cb) + 1, Max(ca, cb))

\* String.prototype.substring(a): to the end of the string.
SubstringFrom(s, a) == Substring(s, a, Len(s))

\* String.prototype.endsWith(suffix).
EndsWith(s, suffix) ==
    /\ Len(suffix) <= Len(s)
    /\ MatchAt(s, suffix, Len(s) - Len(suffix))

---------------------------------------------------------------------------
(* splitCourts of src/main.ts: cut at every terminator, keep nothing after *)
(* the last one, and give the text back whole when fewer than two pieces   *)
(* were cut.                                                               *)

RECURSIVE splitCourtsLoop(_, _, _)
splitCourtsLoop(t, currentIndex, res) ==
    IF ~(0 <= currentIndex /\ currentIndex < Len(t)) THEN res
    ELSE LET nextCourtEnd == IndexOf(t, Saibansho, currentIndex)
         IN  IF nextCourtEnd = -1 THEN res
             ELSE splitCourtsLoop(t, nextCourtEnd + 3,
                      Append(res, Substring(t, currentIndex, nextCourtEnd + 3)))

\* Mutant: the text is given back whole for two pieces as well.
splitCourts_AtMostTwo(t) ==
    LET res == splitCourtsLoop(t, 0, <<>>)
    IN  IF Len(res) <= 2 THEN <<t>> ELSE res

splitCourts(t) ==
    LET res == splitCourtsLoop(t, 0, <<>>)
    IN  IF Len(res) < 2 THEN <<t>> ELSE res

(* splitCourts of src/unnamed/part_000: cut at a terminator only when      *)
(* another one follows; otherwise take the whole rest.  Nothing is pushed  *)
(* when the text holds no terminator at all.                               *)

RECURSIVE splitCourts000Loop(_, _, _)
splitCourts000Loop(t, startPos, found) ==
    IF ~(startPos < Len(t)) THEN found
    ELSE LET courtEndPos == IndexOf(t, Saibansho, startPos)
         IN  IF courtEndPos = -1 THEN found
             ELSE LET endPos == courtEndPos + 3
                      nextCourtPos == IndexOf(t, Saibansho, endPos)
                  IN  IF nextCourtPos # -1
                      THEN splitCourts000Loop(t, endPos,
                               Append(found, Substring(t, startPos, endPos)))
                      ELSE Append(found, SubstringFrom(t, startPos))

splitCourts000(t) == splitCourts000Loop(t, 0, <<>>)

---------------------------------------------------------------------------
(* More string primitives, used by scrapePage.                             *)

\* The white space trim() strips and \s matches; of the characters JavaScript
\* counts as white space the model carries the line feed and the space.
WhiteSpace == {ChLF, ChSpace}

\* The class [，．･・] of the final cleanup.
Decorative == {ChFullComma, ChFullStop, ChHalfNakaguro, ChNakaguro}

RECURSIVE TrimStart(_)
TrimStart(s) ==
    IF s # <<>> /\ Head(s) \in WhiteSpace THEN TrimStart(Tail(s)) ELSE s

RECURSIVE TrimEnd(_)
TrimEnd(s) ==
    IF s # <<>> /\ s[Len(s)] \in WhiteSpace
    THEN TrimEnd(SubSeq(s, 1, Len(s) - 1)) ELSE s

\* String.prototype.trim().
Trim(s) == TrimEnd(TrimStart(s))

\* s.replace(/pat/g, rep) for a literal pattern: left to right, matches do
\* not overlap.
RECURSIVE ReplaceAllFrom(_, _, _, _)
ReplaceAllFrom(s, pat, rep, k) ==
    IF k >= Len(s) THEN <<>>
    ELSE IF MatchAt(s, pat, k)
         THEN rep \o ReplaceAllFrom(s, pat, rep, k + Len(pat))
         ELSE <<s[k + 1]>> \o ReplaceAllFrom(s, pat, rep, k + 1)

ReplaceAll(s, pat, rep) == ReplaceAllFrom(s, pat, rep, 0)

\* s.replace(/(支部|出張所|・)/g, "$1\n"): at each position the alternatives
\* are tried in order and a line feed is put after the one that matches.
RECURSIVE BreakAfterMarkersFrom(_, _)
BreakAfterMarkersFrom(s, k) ==
    IF k >= Len(s) THEN <<>>
    ELSE IF MatchAt(s, Shibu, k)
         THEN Shibu \o LF \o BreakAfterMarkersFrom(s, k + Len(Shibu))
    ELSE IF MatchAt(s, Shucchoujo, k)
         THEN Shucchoujo \o LF \o BreakAfterMarkersFrom(s, k + Len(Shucchoujo))
    ELSE IF MatchAt(s, Nakaguro, k)
         THEN Nakaguro \o LF \o BreakAfterMarkersFrom(s, k + Len(Nakaguro))
    ELSE <<s[k + 1]>> \o BreakAfterMarkersFrom(s, k + 1)

BreakAfterMarkers(s) == BreakAfterMarkersFrom(s, 0)

\* s.split("\n"): the pieces between line feeds; one piece more than there
\* are line feeds, empty pieces included.
RECURSIVE SplitLinesFrom(_, _, _)
SplitLinesFrom(s, k, cur) ==
    IF k >= Len(s) THEN <<cur>>
    ELSE IF s[k + 1] = ChLF
         THEN <<cur>> \o SplitLinesFrom(s, k + 1, <<>>)
         ELSE SplitLinesFrom(s, k + 1, Append(cur, s[k + 1]))

SplitLines(s) == SplitLinesFrom(s, 0, <<>>)

\* s.replace(/[，．･・]|\s/g, "").
RemoveDecoration(s) == SelectSeq(s, LAMBDA c : c \notin Decorative \cup WhiteSpace)

\* Array.prototype.flat() of an array of arrays.
RECURSIVE Flat(_)
Flat(arrs) == IF arrs = <<>> THEN <<>> ELSE Head(arrs) \o Flat(Tail(arrs))

---------------------------------------------------------------------------
(* The aggregation at the end of scrapePage: new Set, sort(), and a sort   *)
(* on length.                                                              *)

\* [...new Set(arr)]: the distinct elements in order of first occurrence.
RECURSIVE UniqFrom(_, _)
UniqFrom(arr, seen) ==
    IF arr = <<>> THEN <<>>
    ELSE IF Head(arr) \in seen THEN UniqFrom(Tail(arr), seen)
         ELSE <<Head(arr)>> \o UniqFrom(Tail(arr), seen \cup {Head(arr)})

Uniq(arr) == UniqFrom(arr, {})

\* The default comparison of Array.prototype.sort(): code unit by code unit,
\* a proper prefix first.
RECURSIVE CodeUnitLess(_, _)
CodeUnitLess(a, b) ==
    IF b = <<>> THEN FALSE
    ELSE IF a = <<>> THEN TRUE
    ELSE IF Head(a) # Head(b) THEN Head(a) < Head(b)
    ELSE CodeUnitLess(Tail(a), Tail(b))

\* Insert x behind every element that does not come after it (stable).
RECURSIVE InsertByCodeUnit(_, _)
InsertByCodeUnit(x, sorted) ==
    IF sorted = <<>> THEN <<x>>
    ELSE IF CodeUnitLess(x, Head(sorted)) THEN <<x>> \o sorted
         ELSE <<Head(sorted)>> \o InsertByCodeUnit(x, Tail(sorted))

RECURSIVE SortDefault(_)
SortDefault(arr) ==
    IF arr = <<>> THEN <<>>
    ELSE InsertByCodeUnit(arr[Len(arr)], SortDefault(SubSeq(arr, 1, Len(arr) - 1)))

RECURSIVE InsertByLength(_, _)
InsertByLength(x, sorted) ==
    IF sorted = <<>> THEN <<x>>
    ELSE IF Len(x) - Len(Head(sorted)) < 0 THEN <<x>> \o sorted
         ELSE <<Head(sorted)>> \o InsertByLength(x, Tail(sorted))

\* sort((a, b) => a.length - b.length); Array.prototype.sort is stable.
RECURSIVE SortByLength(_)
SortByLength(arr) ==
    IF arr = <<>> THEN <<>>
    ELSE InsertByLength(arr[Len(arr)], SortByLength(SubSeq(arr, 1, Len(arr) - 1)))

\* Mutant: the sort on length without the default sort before it.
Aggregate_LengthOnly(arr) == SortByLength(Uniq(arr))

\* const uniq = new Set(lines); const sorted = [...uniq].sort();
\* return [...sorted].sort((a, b) => a.length - b.length);
Aggregate(arr) == SortByLength(SortDefault(Uniq(arr)))

\* The same three statements in src/unnamed/part_000 and part_001.
Aggregate000(arr) == SortByLength(SortDefault(Uniq(arr)))

Aggregate001(arr) == SortByLength(SortDefault(Uniq(arr)))

\* map((line) => line.trim())
TrimEach(arr) == [k \in 1..Len(arr) |-> Trim(arr[k])]

---------------------------------------------------------------------------
(* scrapePage of src/main.ts, from the candidate strings on.               *)

AcceptedSuffix(s) == EndsWith(s, Saibansho) \/ EndsWith(s, Shibu)

\* Mutant: the test for "/" is missing.
NotExcluded_NoSlash(s) == IndexOf(s, Uchino, 0) = -1

NotExcluded(s) == IndexOf(s, Uchino, 0) = -1 /\ IndexOf(s, Slash, 0) = -1

Normalize(s) ==
    SelectSeq(
        TrimEach(SplitLines(ReplaceAll(ReplaceAll(ReplaceAll(s,
            Shibu, Shibu \o LF), Shucchoujo, Shucchoujo \o LF), Nakaguro, LF))),
        LAMBDA line : 0 < Len(Trim(line)))

Cleanup(s) == RemoveDecoration(Trim(s))

scrapePage(cands) ==
    LET acc     == SelectSeq(SelectSeq(cands, AcceptedSuffix), NotExcluded)
        lns     == Flat([k \in 1..Len(acc) |-> Normalize(acc[k])])
        tokens  == Flat([k \in 1..Len(lns) |-> splitCourts(lns[k])])
        cleaned == [k \in 1..Len(tokens) |-> Cleanup(tokens[k])]
    IN  [accepted |-> acc, lines |-> cleaned, data |-> Aggregate(cleaned)]

(* scrapePage of src/unnamed/part_000.                                     *)

AcceptedSuffix000(s) ==
    EndsWith(s, Saibansho) \/ EndsWith(s, Shibu) \/ EndsWith(s, Shucchoujo)

NotExcluded000(s) == IndexOf(s, Uchino, 0) = -1 /\ IndexOf(s, Slash, 0) = -1

Normalize000(s) ==
    SelectSeq(TrimEach(SplitLines(BreakAfterMarkers(s))),
              LAMBDA line : 0 < Len(Trim(line)))

Cleanup000(s) == RemoveDecoration(Trim(s))

scrapePage000(cands) ==
    LET acc     == SelectSeq(SelectSeq(cands, AcceptedSuffix000), NotExcluded000)
        lns     == Flat([k \in 1..Len(acc) |-> Normalize000(acc[k])])
        tokens  == Flat([k \in 1..Len(lns) |-> splitCourts000(lns[k])])
        cleaned == SelectSeq([k \in 1..Len(tokens) |-> Cleanup000(tokens[k])],
                             LAMBDA s : 0 < Len(s))
    IN  [accepted |-> acc, lines |-> cleaned, data |-> Aggregate000(cleaned)]

(* scrapePage of src/unnamed/part_001: no tokenizer and no final cleanup.  *)

AcceptedSuffix001(s) == EndsWith(s, Saibansho) \/ EndsWith(s, Shibu)

NotExcluded001(s) == IndexOf(s, Uchino, 0) = -1 /\ IndexOf(s, Slash, 0) = -1

Normalize001(s) ==
    SelectSeq(
        TrimEach(SplitLines(ReplaceAll(ReplaceAll(ReplaceAll(s,
            Shibu, Shibu \o LF), Shucchoujo, Shucchoujo \o LF), Nakaguro, LF))),
        LAMBDA line : 0 < Len(Trim(line)))

scrapePage001(cands) ==
    LET acc == SelectSeq(SelectSeq(cands, AcceptedSuffix001), NotExcluded001)
        lns == Flat([k \in 1..Len(acc) |-> Normalize001(acc[k])])
    IN  [accepted |-> acc, lines |-> lns, data |-> Aggregate001(lns)]

---------------------------------------------------------------------------
(* Bounds and input domains.                                               *)

\* Longest argument of splitCourts that is tried.
MaxLen == 7

\* All sequences over S of length at most n.
RECURSIVE SeqsUpTo(_, _)
SeqsUpTo(S, n) ==
    IF n = 0 THEN {<<>>}
    ELSE LET shorter == SeqsUpTo(S, n - 1)
         IN  shorter \cup {Append(s, x) : s \in shorter, x \in S}

\* The three characters of the terminator and one other character.
SplitAlphabet == {ChSai, ChBan, ChSho, ChBu}

\* scrapePage hands splitCourts only lines that are not empty (the filter
\* 0 < line.trim().length precedes the call).
SplitInputs == SeqsUpTo(SplitAlphabet, MaxLen) \ {<<>>}

\* Most court names run together in one line, and the longest text a name
\* carries in front of its terminator.
MaxCourts == 3
MaxPrefix == 1

\* A court name: some text, then the terminator, and the terminator nowhere
\* else in it.
\* The characters in front of the terminator: an ordinary one, and the first
\* and the last character of the terminator itself.
PrefixAlphabet == {ChBu, ChSai, ChSho}

CourtNames ==
    {n \in {prefix \o Saibansho : prefix \in SeqsUpTo(PrefixAlphabet, MaxPrefix)} :
        Cardinality({k \in 0..Len(n) : MatchAt(n, Saibansho, k)}) = 1}

\* The lines made of 1..n court names.
RECURSIVE CourtLines(_)
CourtLines(n) ==
    IF n = 0 THEN {}
    ELSE CourtNames \cup {l \o name : l \in CourtLines(n - 1), name \in CourtNames}

\* Most pieces of text the anchors of one document hold together.
MaxPieces == 3

\* What an anchor text is made of: an ordinary character, the terminator,
\* the suffix markers, the separators and marks the pipeline treats
\* specially, and white space.
Pieces ==
    {<<ChChi>>, Saibansho, Shibu, Shucchoujo, Nakaguro, Uchino, Slash,
     <<ChFullComma>>, <<ChSpace>>}

\* The strings made of exactly k pieces.
RECURSIVE StringsOf(_)
StringsOf(k) ==
    IF k = 0 THEN {<<>>}
    ELSE {s \o piece : s \in StringsOf(k - 1), piece \in Pieces}

\* The candidate lists whose candidates are not empty and hold at most n
\* pieces together.
RECURSIVE DocumentsUpTo(_)
DocumentsUpTo(n) ==
    {<<>>} \cup UNION {{<<c>> \o rest : c \in StringsOf(k),
                                       rest \in DocumentsUpTo(n - k)} : k \in 1..n}

Documents == DocumentsUpTo(MaxPieces)

\* Most cleaned names handed to the aggregation, and their greatest length.
MaxNames == 3
MaxNameLen == 2

NameAlphabet == {ChChi, ChSai}

Names == SeqsUpTo(NameAlphabet, MaxNameLen)

\* Most URLs getBaseUrls returns, and most anchors of a crawled document.
MaxUrls == 3
MaxAnchors == 2

\* getBaseUrls returns Array.from(new Set(hrefs)): no URL twice.  A URL is
\* a number in 1..MaxUrls.
UrlLists ==
    {us \in SeqsUpTo(1..MaxUrls, MaxUrls) :
        \A j, k \in 1..Len(us) : j # k => us[j] # us[k]}

\* Anchor texts of the crawled documents: a four-character court name, a
\* five-character branch name, and a link text that is a path.
CrawlAnchors == {<<ChChi>> \o Saibansho, Saibansho \o Shibu, Slash}

CrawlDocuments == SeqsUpTo(CrawlAnchors, MaxAnchors)

Progs == {"main", "part_000", "part_001"}

---------------------------------------------------------------------------
(* Idle values of the parts a specification does not exercise.             *)

SplitIdle ==
    /\ text = <<>>
    /\ called = {}
    /\ tokensMain = <<>>
    /\ tokens000 = <<>>

PageIdle ==
    /\ candidates = <<>>
    /\ pagePc = "idle"
    /\ accepted = <<>>
    /\ lines = <<>>
    /\ data = <<>>

CrawlIdle ==
    /\ urls = <<>>
    /\ i = 0
    /\ pc = "idle"
    /\ results = <<>>
    /\ fetched = <<>>
    /\ sleeps = <<>>
    /\ files = <<>>

---------------------------------------------------------------------------
(* Specification SpecSplit: the two tokenizers applied to one line.        *)

InitSplit ==
    /\ text \in SplitInputs
    /\ called = {}
    /\ tokensMain = <<>>
    /\ tokens000 = <<>>
    /\ prog = "none"
    /\ PageIdle
    /\ CrawlIdle

CallSplitCourts ==
    /\ "main" \notin called
    /\ tokensMain' = splitCourts(text)
    /\ called' = called \cup {"main"}
    /\ UNCHANGED <<text, tokens000, prog, pageVars, crawlVars>>

CallSplitCourts000 ==
    /\ "part_000" \notin called
    /\ tokens000' = splitCourts000(text)
    /\ called' = called \cup {"part_000"}
    /\ UNCHANGED <<text, tokensMain, prog, pageVars, crawlVars>>

NextSplit == CallSplitCourts \/ CallSplitCourts000

SpecSplit == InitSplit /\ [][NextSplit]_vars

---------------------------------------------------------------------------
(* Specification SpecCourtLines: the two tokenizers applied to a line that *)
(* is one or more court names run together.                                *)

InitCourtLines ==
    /\ text \in CourtLines(MaxCourts)
    /\ called = {}
    /\ tokensMain = <<>>
    /\ tokens000 = <<>>
    /\ prog = "none"
    /\ PageIdle
    /\ CrawlIdle

SpecCourtLines == InitCourtLines /\ [][NextSplit]_vars

---------------------------------------------------------------------------
(* Specification SpecPage: one parsed document put through scrapePage of   *)
(* one of the three programs.                                              *)

InitPage ==
    /\ SplitIdle
    /\ prog = "none"
    /\ candidates \in Documents
    /\ pagePc = "parsed"
    /\ accepted = <<>>
    /\ lines = <<>>
    /\ data = <<>>
    /\ CrawlIdle

ScrapePage ==
    /\ pagePc = "parsed"
    /\ LET r == scrapePage(candidates)
       IN  /\ accepted' = r.accepted
           /\ lines' = r.lines
           /\ data' = r.data
    /\ prog' = "main"
    /\ pagePc' = "returned"
    /\ UNCHANGED <<splitVars, candidates, crawlVars>>

ScrapePage000 ==
    /\ pagePc = "parsed"
    /\ LET r == scrapePage000(candidates)
       IN  /\ accepted' = r.accepted
           /\ lines' = r.lines
           /\ data' = r.data
    /\ prog' = "part_000"
    /\ pagePc' = "returned"
    /\ UNCHANGED <<splitVars, candidates, crawlVars>>

ScrapePage001 ==
    /\ pagePc = "parsed"
    /\ LET r == scrapePage001(candidates)
       IN  /\ accepted' = r.accepted
           /\ lines' = r.lines
           /\ data' = r.data
    /\ prog' = "part_001"
    /\ pagePc' = "returned"
    /\ UNCHANGED <<splitVars, candidates, crawlVars>>

NextPage == ScrapePage \/ ScrapePage000 \/ ScrapePage001

SpecPage == InitPage /\ [][NextPage]_vars

---------------------------------------------------------------------------
(* Specification SpecAggregate: the last three statements of scrapePage    *)
(* applied to an array of cleaned names.                                   *)

InitAggregate ==
    /\ SplitIdle
    /\ prog = "none"
    /\ candidates = <<>>
    /\ pagePc = "cleaned"
    /\ accepted = <<>>
    /\ lines \in SeqsUpTo(Names, MaxNames)
    /\ data = <<>>
    /\ CrawlIdle

AggregateLines ==
    /\ pagePc = "cleaned"
    /\ data' = Aggregate(lines)
    /\ prog' = "main"
    /\ pagePc' = "returned"
    /\ UNCHANGED <<splitVars, candidates, accepted, lines, crawlVars>>

\* part_000 filters the empty strings out before it builds the Set.
AggregateLines000 ==
    /\ pagePc = "cleaned"
    /\ \A k \in 1..Len(lines) : 0 < Len(lines[k])
    /\ data' = Aggregate000(lines)
    /\ prog' = "part_000"
    /\ pagePc' = "returned"
    /\ UNCHANGED <<splitVars, candidates, accepted, lines, crawlVars>>

NextAggregate == AggregateLines \/ AggregateLines000

SpecAggregate == InitAggregate /\ [][NextAggregate]_vars

---------------------------------------------------------------------------
(* Specification SpecCrawl: main of one of the three programs, from        *)
(* getBaseUrls to the last file written.                                   *)

\* The delay main hands to scrapePages.
DelayMain == 3000
Delay000  == 1500
Delay001  == 3000

DelayMs(p) ==
    CASE p = "main"     -> DelayMain
      [] p = "part_000" -> Delay000
      [] p = "part_001" -> Delay001

\* What scrapePage of program p returns for a document.
ScrapedData(p, doc) ==
    CASE p = "main"     -> scrapePage(doc).data
      [] p = "part_000" -> scrapePage000(doc).data
      [] p = "part_001" -> scrapePage001(doc).data

\* results.flatMap((result) => result.data)
FlatData(res) == Flat([k \in 1..Len(res) |-> res[k].data])

\* allData of main: src/main.ts and part_001 take the flatMap as it is,
\* part_000 passes it through a Set.
AllData(p, res) ==
    CASE p = "main"     -> FlatData(res)
      [] p = "part_000" -> Uniq(FlatData(res))
      [] p = "part_001" -> FlatData(res)

SourceFiles == SelectSeq(files, LAMBDA f : f.kind = "source")

InitCrawl ==
    /\ SplitIdle
    /\ PageIdle
    /\ prog \in Progs
    /\ urls = <<>>
    /\ i = 0
    /\ pc = "start"
    /\ results = <<>>
    /\ fetched = <<>>
    /\ sleeps = <<>>
    /\ files = <<>>

\* const urls = await getBaseUrls(); scrapePages starts with i = 0.
GetBaseUrls ==
    /\ pc = "start"
    /\ urls' \in UrlLists
    /\ i' = 0
    /\ pc' = "scrape"
    /\ UNCHANGED <<splitVars, prog, pageVars, results, fetched, sleeps, files>>

\* getBaseUrls throws (HTTP status, parse failure): nothing catches it.
GetBaseUrlsThrows ==
    /\ pc = "start"
    /\ pc' = "aborted"
    /\ UNCHANGED <<splitVars, prog, pageVars, urls, i, results, fetched, sleeps, files>>

\* The try block of the loop body: scrapePage(url) returns and its result
\* is pushed.
ScrapeReturns ==
    /\ pc = "scrape"
    /\ i < Len(urls)
    /\ \E doc \in CrawlDocuments :
         results' = Append(results, [url |-> urls[i + 1],
                                     data |-> ScrapedData(prog, doc)])
    /\ fetched' = Append(fetched, [url |-> urls[i + 1], ok |-> TRUE])
    /\ pc' = "delay"
    /\ UNCHANGED <<splitVars, prog, pageVars, urls, i, sleeps, files>>

\* Mutant: a failed URL leaves a result with no names.
ScrapeThrows_PushEmpty ==
    /\ pc = "scrape"
    /\ i < Len(urls)
    /\ results' = Append(results, [url |-> urls[i + 1], data |-> <<>>])
    /\ fetched' = Append(fetched, [url |-> urls[i + 1], ok |-> FALSE])
    /\ pc' = "delay"
    /\ UNCHANGED <<splitVars, prog, pageVars, urls, i, sleeps, files>>

\* Mutant: a failed URL is tried again.
ScrapeThrows_Retry ==
    /\ pc = "scrape"
    /\ i < Len(urls)
    /\ fetched' = Append(fetched, [url |-> urls[i + 1], ok |-> FALSE])
    /\ UNCHANGED <<splitVars, prog, pageVars, urls, i, pc, results, sleeps, files>>

\* scrapePage(url) throws (HTTP status, parse failure, a fault while
\* extracting): the catch block logs the error and the loop body goes on.
ScrapeThrows ==
    /\ pc = "scrape"
    /\ i < Len(urls)
    /\ fetched' = Append(fetched, [url |-> urls[i + 1], ok |-> FALSE])
    /\ pc' = "delay"
    /\ UNCHANGED <<splitVars, prog, pageVars, urls, i, results, sleeps, files>>

\* if (i < urls.length - 1) await sleep(delayMs); then i++.
Sleep ==
    /\ pc = "delay"
    /\ i < Len(urls) - 1
    /\ sleeps' = Append(sleeps, <<i, DelayMs(prog)>>)
    /\ i' = i + 1
    /\ pc' = "scrape"
    /\ UNCHANGED <<splitVars, prog, pageVars, urls, results, fetched, files>>

\* Mutant: the delay is awaited after the last URL too.
SkipSleep_Sleeps ==
    /\ pc = "delay"
    /\ ~(i < Len(urls) - 1)
    /\ sleeps' = Append(sleeps, <<i, DelayMs(prog)>>)
    /\ i' = i + 1
    /\ pc' = "scrape"
    /\ UNCHANGED <<splitVars, prog, pageVars, urls, results, fetched, files>>

\* The last URL: no sleep; i++.
SkipSleep ==
    /\ pc = "delay"
    /\ ~(i < Len(urls) - 1)
    /\ i' = i + 1
    /\ pc' = "scrape"
    /\ UNCHANGED <<splitVars, prog, pageVars, urls, results, fetched, sleeps, files>>

\* The loop condition i < urls.length fails: return results.
ReturnResults ==
    /\ pc = "scrape"
    /\ ~(i < Len(urls))
    /\ pc' = "save"
    /\ UNCHANGED <<splitVars, prog, pageVars, urls, i, results, fetched, sleeps, files>>

\* for (const result of results) await saveAsFile(result.data, filename):
\* the next result is written.
SaveSourceFile ==
    /\ pc = "save"
    /\ Len(SourceFiles) < Len(results)
    /\ LET result == results[Len(SourceFiles) + 1]
       IN  files' = Append(files, [kind |-> "source", url |-> result.url,
                                   content |-> result.data])
    /\ UNCHANGED <<splitVars, prog, pageVars, urls, i, pc, results, fetched, sleeps>>

\* Deno.writeTextFile throws: saveAsFile logs and rethrows, main ends.
SaveSourceFileThrows ==
    /\ pc = "save"
    /\ Len(SourceFiles) < Len(results)
    /\ pc' = "aborted"
    /\ UNCHANGED <<splitVars, prog, pageVars, urls, i, results, fetched, sleeps, files>>

\* The for-of loop is over.
SourceFilesDone ==
    /\ pc = "save"
    /\ ~(Len(SourceFiles) < Len(results))
    /\ pc' = "combine"
    /\ UNCHANGED <<splitVars, prog, pageVars, urls, i, results, fetched, sleeps, files>>

\* Mutant: the combined file is written whatever the length of allData.
SaveCombined_Always ==
    /\ pc = "combine"
    /\ files' = Append(files, [kind |-> "all", url |-> 0,
                               content |-> AllData(prog, results)])
    /\ pc' = "done"
    /\ UNCHANGED <<splitVars, prog, pageVars, urls, i, results, fetched, sleeps>>

\* if (0 < allData.length) await saveAsFile(allData, filename).
SaveCombined ==
    /\ pc = "combine"
    /\ 0 < Len(AllData(prog, results))
    /\ files' = Append(files, [kind |-> "all", url |-> 0,
                               content |-> AllData(prog, results)])
    /\ pc' = "done"
    /\ UNCHANGED <<splitVars, prog, pageVars, urls, i, results, fetched, sleeps>>

SaveCombinedThrows ==
    /\ pc = "combine"
    /\ 0 < Len(AllData(prog, results))
    /\ pc' = "aborted"
    /\ UNCHANGED <<splitVars, prog, pageVars, urls, i, results, fetched, sleeps, files>>

\* allData is empty: no combined file.
SkipCombined ==
    /\ pc = "combine"
    /\ ~(0 < Len(AllData(prog, results)))
    /\ pc' = "done"
    /\ UNCHANGED <<splitVars, prog, pageVars, urls, i, results, fetched, sleeps, files>>

NextCrawl ==
    \/ GetBaseUrls
    \/ GetBaseUrlsThrows
    \/ ScrapeReturns
    \/ ScrapeThrows
    \/ Sleep
    \/ SkipSleep
    \/ ReturnResults
    \/ SaveSourceFile
    \/ SaveSourceFileThrows
    \/ SourceFilesDone
    \/ SaveCombined
    \/ SaveCombinedThrows
    \/ SkipCombined

SpecCrawl == InitCrawl /\ [][NextCrawl]_vars

---------------------------------------------------------------------------
(* Operators used to state the claims about the tokenizers.                *)

RECURSIVE Flatten(_)
Flatten(ss) == IF ss = <<>> THEN <<>> ELSE Head(ss) \o Flatten(Tail(ss))

\* Number of positions of s at which the terminator starts.
Occurrences(s) == Cardinality({k \in 0..Len(s) : MatchAt(s, Saibansho, k)})

\* C1: Tokenizer round-trip. Concatenating in order the tokens splitCourts
\* returns reproduces the input exactly, for the splitCourts of src/main.ts
\* and for the splitCourts of src/unnamed/part_000.
C1_RoundTrip ==
    /\ "main" \in called => Flatten(tokensMain) = text
    /\ "part_000" \in called => Flatten(tokens000) = text

\* C2: Minimum-split policy. On an input with at most one occurrence of the
\* terminator both splitCourts return exactly the one-element sequence
\* <<input>>.
C2_MinimumSplit ==
    Occurrences(text) <= 1 =>
        /\ "main" \in called => tokensMain = <<text>>
        /\ "part_000" \in called => tokens000 = <<text>>

HasSuffix(s, suffix) ==
    /\ Len(suffix) <= Len(s)
    /\ SubSeq(s, Len(s) - Len(suffix) + 1, Len(s)) = suffix

\* The positions just behind the occurrences of the terminator in s.
NameEnds(s) == {k + 3 : k \in {j \in 0..Len(s) : MatchAt(s, Saibansho, j)}}

\* The n-th of them, counted from 1; 0 for n = 0.
NthEnd(s, n) ==
    IF n = 0 THEN 0
    ELSE CHOOSE e \in NameEnds(s) : Cardinality({x \in NameEnds(s) : x <= e}) = n

\* The names a line of court names is made of: it is cut behind every
\* terminator.
NamesOf(s) ==
    [n \in 1..Cardinality(NameEnds(s)) |->
        SubSeq(s, NthEnd(s, n - 1) + 1, NthEnd(s, n))]

\* C11: Tokenizer variants agree on well-formed input. On a line made of
\* k >= 1 names, each ending with the terminator and holding it nowhere
\* else, splitCourts of src/main.ts and splitCourts of src/unnamed/part_000
\* return the same sequence: those k names in order.
C11_VariantsAgree ==
    /\ HasSuffix(text, Saibansho)
    /\ Flatten(NamesOf(text)) = text
    /\ "main" \in called => tokensMain = NamesOf(text)
    /\ "part_000" \in called => tokens000 = NamesOf(text)
    /\ called = {"main", "part_000"} => tokensMain = tokens000

\* Reached: both variants have returned the three names of a line whose
\* names differ in length.
C11_Witness ==
    /\ called = {"main", "part_000"}
    /\ Len(tokensMain) = 3
    /\ tokens000 = tokensMain
    /\ Len(tokensMain[1]) # Len(tokensMain[2])
    /\ Len(tokensMain[2]) > 3

---------------------------------------------------------------------------
(* Operators used to state the claims about scrapePage.                    *)

Range(arr) == {arr[k] : k \in 1..Len(arr)}

Contains(s, pat) == \E k \in 0..Len(s) : MatchAt(s, pat, k)

\* a comes before b in code-unit order.
Before(a, b) ==
    \E n \in 0..Min(Len(a), Len(b)) :
        /\ SubSeq(a, 1, n) = SubSeq(b, 1, n)
        /\ \/ n = Len(a) /\ n < Len(b)
           \/ n < Len(a) /\ n < Len(b) /\ a[n + 1] < b[n + 1]

\* C5: Per-source dedup and ordering. The list scrapePage returns holds each
\* distinct cleaned name exactly once, every shorter name before every
\* longer one, and names of equal length in ascending code-unit order.
C5_DedupAndOrder ==
    pagePc = "returned" =>
        /\ Range(data) = Range(lines)
        /\ \A j, k \in 1..Len(data) :
             j < k => /\ data[j] # data[k]
                      /\ Len(data[j]) <= Len(data[k])
                      /\ Len(data[j]) = Len(data[k]) => Before(data[j], data[k])

\* Reached: an input with a repeated name, and two distinct names of equal
\* length given in descending order, has been aggregated.
C5_Witness ==
    /\ pagePc = "returned"
    /\ Len(lines) > Cardinality(Range(lines))
    /\ \E j, k \in 1..Len(lines) :
         /\ j < k
         /\ Len(lines[j]) = Len(lines[k])
         /\ Before(lines[k], lines[j])

\* C6: Canonical names are never empty. Every name in the list scrapePage
\* returns is a non-empty string, for scrapePage of src/main.ts and of
\* src/unnamed/part_000.
C6_NamesNonEmpty ==
    pagePc = "returned" /\ prog \in {"main", "part_000"} =>
        \A k \in 1..Len(data) : data[k] # <<>>

\* What the Candidate Filter is said to accept, per program.
Acceptable(p, s) ==
    /\ \/ HasSuffix(s, Saibansho)
       \/ HasSuffix(s, Shibu)
       \/ p = "part_000" /\ HasSuffix(s, Shucchoujo)
    /\ ~Contains(s, Uchino)
    /\ ~Contains(s, Slash)

\* C10: Candidate Filter. Only candidates that end with an accepted suffix
\* and contain neither "内の" nor "/" get past the filters; a candidate with
\* "内の" or "/" never does, however it ends; and a page whose candidates
\* are all rejected still returns, with an empty list.
C10_CandidateFilter ==
    pagePc = "returned" =>
        /\ \A k \in 1..Len(accepted) :
             /\ accepted[k] \in Range(candidates)
             /\ Acceptable(prog, accepted[k])
        /\ \A k \in 1..Len(candidates) :
             Contains(candidates[k], Uchino) \/ Contains(candidates[k], Slash)
                 => candidates[k] \notin Range(accepted)
        /\ (\A k \in 1..Len(candidates) : ~Acceptable(prog, candidates[k]))
             => data = <<>>

\* Reached: a page has returned on which one candidate ends with "支部" but
\* holds a "/" and was rejected, and another candidate was accepted.
C10_Witness ==
    /\ pagePc = "returned"
    /\ accepted # <<>>
    /\ \E k \in 1..Len(candidates) :
         /\ HasSuffix(candidates[k], Shibu)
         /\ Contains(candidates[k], Slash)
         /\ candidates[k] \notin Range(accepted)

---------------------------------------------------------------------------
(* Operators used to state the claims about scrapePages and main.          *)

\* scrapePages has returned.
Returned == pc \in {"save", "combine", "done"}

OkUrls == [k \in 1..Len(SelectSeq(fetched, LAMBDA f : f.ok)) |->
              SelectSeq(fetched, LAMBDA f : f.ok)[k].url]

FetchedUrls == [k \in 1..Len(fetched) |-> fetched[k].url]

ResultUrls == [k \in 1..Len(results) |-> results[k].url]

SourceFileUrls == [k \in 1..Len(SourceFiles) |-> SourceFiles[k].url]

CombinedFiles == SelectSeq(files, LAMBDA f : f.kind = "all")

\* Every name of every result.
ResultNames == UNION {Range(results[k].data) : k \in 1..Len(results)}

IsPrefix(a, b) == Len(a) <= Len(b) /\ a = SubSeq(b, 1, Len(a))

\* arr lists the set S once each, by ascending length and, within a length,
\* in ascending code-unit order.
IsAggregateOf(arr, S) ==
    /\ Range(arr) = S
    /\ \A j, k \in 1..Len(arr) :
         j < k => /\ arr[j] # arr[k]
                  /\ Len(arr[j]) <= Len(arr[k])
                  /\ Len(arr[j]) = Len(arr[k]) => Before(arr[j], arr[k])

\* C3: Failure isolation. Whatever URLs fail, scrapePages calls scrapePage
\* for every URL of the list and returns one result for each URL that
\* succeeded, in list order, and none for a failed one; a run is never cut
\* short inside the loop; and a run that ends normally has written one
\* per-source file for each successful URL and no name into the combined
\* file that is not a name of a result.
C3_FailureIsolation ==
    /\ Returned =>
         /\ Len(fetched) = Len(urls)
         /\ ResultUrls = OkUrls
         /\ \A k \in 1..Len(fetched) :
              ~fetched[k].ok => fetched[k].url \notin Range(ResultUrls)
    /\ pc = "aborted" => Len(fetched) = Len(urls)
    /\ pc = "done" =>
         /\ SourceFileUrls = OkUrls
         /\ \A k \in 1..Len(SourceFiles) : SourceFiles[k].content = results[k].data
         /\ \A k \in 1..Len(CombinedFiles) :
              Range(CombinedFiles[k].content) \subseteq ResultNames

\* Reached: a run of three URLs of which the second failed has ended with
\* two per-source files and the combined file.
C3_Witness ==
    /\ pc = "done"
    /\ Len(urls) = 3
    /\ fetched[1].ok /\ ~fetched[2].ok /\ fetched[3].ok
    /\ Len(SourceFiles) = 2
    /\ Len(CombinedFiles) = 1

\* C4: Combined result is the Aggregator applied to the union. The names
\* written to the combined output are the deduplicated union of the names of
\* all results, by ascending length and, within a length, in code-unit
\* order; claimed for main of src/main.ts and of src/unnamed/part_000.
C4_CombinedIsAggregate ==
    pc = "done" /\ prog \in {"main", "part_000"} =>
        \A k \in 1..Len(CombinedFiles) :
            IsAggregateOf(CombinedFiles[k].content, ResultNames)

\* C7: Processing order. scrapePage is called for the URLs of the list in
\* list order, each once; the per-source files are written in that order;
\* the combined file is written last, after every URL was tried and every
\* per-source file was written.
C7_ProcessingOrder ==
    /\ IsPrefix(FetchedUrls, urls)
    /\ IsPrefix(SourceFileUrls, OkUrls)
    /\ Returned => FetchedUrls = urls
    /\ \A k \in 1..Len(files) :
         files[k].kind = "all" =>
             /\ k = Len(files)
             /\ FetchedUrls = urls
             /\ SourceFileUrls = OkUrls
    /\ pc = "done" => SourceFileUrls = OkUrls

\* Reached: a run of three URLs whose first URL failed has written its two
\* per-source files and then the combined file.
C7_Witness ==
    /\ pc = "done"
    /\ Len(urls) = 3
    /\ ~fetched[1].ok /\ fetched[2].ok /\ fetched[3].ok
    /\ Len(files) = 3
    /\ files[3].kind = "all"

\* C8: Rate limiting. Between the processing of URL i and the call for URL
\* i+1 exactly one delay of the configured length is awaited, whether URL i
\* succeeded or failed, and none after the last URL: n-1 delays for n >= 1
\* URLs, none for an empty list.
C8_RateLimiting ==
    /\ \A k \in 1..Len(sleeps) : sleeps[k] = <<k - 1, DelayMs(prog)>>
    /\ Len(sleeps) <= Len(fetched)
    /\ pc = "scrape" /\ i < Len(urls) => Len(sleeps) = i /\ Len(fetched) = i
    /\ pc = "delay" => Len(sleeps) = i /\ Len(fetched) = i + 1
    /\ Returned => Len(sleeps) = Max(Len(urls) - 1, 0)

\* Reached: scrapePages has returned from a list of three URLs after two
\* delays, the first of them behind a URL that failed.
C8_Witness ==
    /\ Returned
    /\ Len(urls) = 3
    /\ Len(sleeps) = 2
    /\ ~fetched[1].ok

\* C9: Empty-result suppression. A run that ends normally has written the
\* combined file exactly when some result holds a name, and one per-source
\* file for every result, a result without names included; no combined file
\* is ever written empty.
C9_EmptySuppression ==
    /\ pc = "done" =>
         /\ (Len(CombinedFiles) = 1) <=> (ResultNames # {})
         /\ Len(CombinedFiles) <= 1
         /\ Len(SourceFiles) = Len(results)
    /\ \A k \in 1..Len(CombinedFiles) : CombinedFiles[k].content # <<>>

\* Reached: a run has ended in which a URL succeeded with no names: its
\* per-source file is written and no combined file is.
C9_Witness ==
    /\ pc = "done"
    /\ results # <<>>
    /\ ResultNames = {}
    /\ Len(SourceFiles) = Len(results)
    /\ \E k \in 1..Len(SourceFiles) : SourceFiles[k].content = <<>>
    /\ CombinedFiles = <<>>

===========================================================================
